---- MODULE Spec2Model ----
(***************************************************************************)
(* Model of the qwen2vl worker (src-tauri/llm/server/src/qwen2vl.cpp):     *)
(* the command dispatcher (processRequest, main), the turn handlers        *)
(* (load_model, planner_turn, executor_turn, turn_setup, turn_cleanup,     *)
(* infer) and the generation pipeline (process_prompt, eval_tokens,        *)
(* qwen2vl_eval_image_embed, sample).                                      *)
(*                                                                         *)
(* Every handler of qwen2vl.cpp takes its inference_data BY VALUE, so a    *)
(* handler works on a copy `d` of the session record and what it assigns   *)
(* to d is gone when it returns; only what is reached through the pointer  *)
(* d.params (the common_params of main) and the runtime's own heap is      *)
(* shared.  The handlers below are operators from (payload, d, params,     *)
(* heap) to the SET of their possible outcomes: the runtime and the vision *)
(* encoder are opaque collaborators whose result (handle or failure) is a  *)
(* nondeterministic choice.                                                *)
(***************************************************************************)
EXTENDS Integers, Sequences, FiniteSets, TLC

VARIABLES
    running,   \* std::atomic<bool> running of main
    pc,        \* where the process is: "read", "stopped", "exited", "crashed", "terminated"
    session,   \* std::atomic<inference_data> inference_data of main
    params,    \* common_params params of main, shared through inference_data.params
    heap,      \* what the runtime has handed out: model handles, Turn Contexts, Image Embeddings
    inp,       \* the lines read from the control channel so far
    out,       \* the RESPONSE lines written so far
    last,      \* what the handler of the last line did (runtime calls, releases)
    gen        \* one run of process_prompt (the generation pipeline)

vars == <<running, pc, session, params, heap, inp, out, last, gen>>

\* ---------------------------------------------------------------- bounds
\* number of lines read from the control channel in one run
MaxLines == 4

\* ---------------------------------------------------------------- values
NULL == 0

PLANNER == 0
EXECUTOR == 1

\* the text of a line up to its payload, as characters
SHUTDOWN_S == <<"S", "H", "U", "T", "D", "O", "W", "N">>
PLAN_S == <<"P", "L", "A", "N">>
EXECUTE_S == <<"E", "X", "E", "C", "U", "T", "E">>
LOAD_S == <<"L", "O", "A", "D">>
FOO_S == <<"F", "O", "O">>

\* A JSON payload, by what nlohmann::json makes of it: whether it parses,
\* the keys it holds, whether the values converted to std::string are strings.
\* len is the number of characters of the payload (0: nothing follows the verb).
Payload(json, keys, strings, len) == [json |-> json, keys |-> keys, strings |-> strings, len |-> len]

NoPayload == Payload(FALSE, {}, FALSE, 0)
TurnPayload == Payload(TRUE, {"prompt", "image"}, TRUE, 1)
LoadPayload == Payload(TRUE, {"text_model", "vision_model"}, TRUE, 1)
PromptOnly == Payload(TRUE, {"prompt"}, TRUE, 1)
ImageOnly == Payload(TRUE, {"image"}, TRUE, 1)
NotJson == Payload(FALSE, {}, FALSE, 1)
TurnNonString == Payload(TRUE, {"prompt", "image"}, FALSE, 1)
LoadNonString == Payload(TRUE, {"text_model", "vision_model"}, FALSE, 1)

\* the values of a payload's string fields (all payloads carry the same ones)
PromptOf(p) == <<"task">>
ImageOf(p) == "shot.png"
TextModelOf(p) == "m.bin"
VisionModelOf(p) == "v.bin"

Line(text, payload) == [text |-> text, payload |-> payload]

\* the lines the control channel may carry: blank, SHUTDOWN, unknown text, a
\* verb with a character after it ("SHUTDOWN!", "PLANS"), a bare verb, and each
\* verb followed by a space and a payload
Lines ==
    {Line(<<>>, NoPayload), Line(SHUTDOWN_S, NoPayload), Line(FOO_S, NoPayload)}
    \cup {Line(SHUTDOWN_S \o <<"!">>, NoPayload), Line(PLAN_S \o <<"S">>, NoPayload)}
    \cup {Line(v, NoPayload) : v \in {PLAN_S, EXECUTE_S, LOAD_S}}
    \cup {Line(v \o <<" ">>, p) : v \in {PLAN_S, EXECUTE_S}, p \in {TurnPayload, PromptOnly, ImageOnly, NotJson, TurnNonString}}
    \cup {Line(LOAD_S \o <<" ">>, p) : p \in {LoadPayload, PromptOnly, NotJson, LoadNonString}}

LineLen(l) == Len(l.text) + l.payload.len

\* input.empty()
IsBlank(l) == LineLen(l) = 0

\* input.rfind(verb, 0) == 0
StartsWith(l, verb) ==
    /\ Len(l.text) >= Len(verb)
    /\ SubSeq(l.text, 1, Len(verb)) = verb

\* input.substr(pos) throws std::out_of_range when pos > size()
SubstrThrows(l, pos) == pos > LineLen(l)

\* input.substr(pos) otherwise: what follows the first pos characters (the
\* payload; text left over before the payload, or nothing at all, is not JSON)
Substr(l, pos) ==
    IF pos = Len(l.text) /\ l.payload.len > 0 THEN l.payload
    ELSE NotJson

\* ---------------------------------------------------------------- responses
Response(success, reason) == [success |-> success, reason |-> reason, input |-> <<>>]

R_ShuttingDown == Response(TRUE, "Shutting down")
R_Loaded == Response(TRUE, "Models loaded successfully")
R_LoadMissing == Response(FALSE, "Missing required 'text_model' or 'vision_model' field")
R_InvalidJson == Response(FALSE, "Invalid JSON payload")
R_InvalidPayload == Response(FALSE, "Invalid JSON payload, payload must contain \"prompt\" and \"image\" fields")
R_TurnSetup == Response(FALSE, "Could not initialize turn, please try again")
R_InvalidModel == Response(FALSE, "Invalid model response, please try again")
R_NotLoaded == Response(FALSE, "Model not loaded")
R_Unknown(l) == [success |-> FALSE, reason |-> "Error unknown function: ", input |-> l.text]
\* no response was written
NoResponse == Response(FALSE, "<none>")
\* the model's own JSON with success set to true by infer
R_ModelJson == Response(TRUE, "<model json>")

\* ---------------------------------------------------------------- the heap
\* A handle is an index into the table of its kind; 0 is the null pointer.
\* models[h] and embeds[h] count the releases of handle h; a Turn Context also
\* holds the model pointer stored in it (llava_context::model).
EmptyHeap == [models |-> <<>>, ctxs |-> <<>>, embeds |-> <<>>]

LiveModels(h) == {m \in DOMAIN h.models : h.models[m] = 0}
LiveCtxs(h) == {c \in DOMAIN h.ctxs : h.ctxs[c].freed = 0}
LiveEmbeds(h) == {e \in DOMAIN h.embeds : h.embeds[e] = 0}

\* llama_free_model(model): a null pointer is ignored
llama_free_model(h, model) ==
    IF model = NULL THEN h
    ELSE [h EXCEPT !.models[model] = @ + 1]

\* what a handler did, for the claims about its runtime calls
NoEffect == [ctxNew |-> NULL, embedNew |-> NULL, modelNew |-> NULL,
             modelCall |-> FALSE, ctxCall |-> FALSE, embedCall |-> FALSE,
             inferRan |-> FALSE, cleanup |-> FALSE, nullDeref |-> FALSE,
             ctxUsed |-> NULL, embedUsed |-> NULL]

\* how a handler ends: it returns ("ok"), dereferences a null pointer and the
\* process dies ("crash"), or lets an exception escape the listener thread
\* ("terminate": std::terminate)
Outcome(resp, end, p, h, eff) ==
    [resp |-> IF end = "ok" THEN resp ELSE NoResponse,
     end |-> end, params |-> p, heap |-> h, eff |-> eff]

\* ---------------------------------------------------------------- prompts
\* A prompt is a sequence of parts; IMG_TAG stands for one base64 image tag
\* (<img src="data:image/jpeg;base64,...">).
IMG_TAG == "<img>"

\* find_image_tag_in_prompt: the index of the first image tag, 0 (npos) if none
find_image_tag_in_prompt(prompt) ==
    IF \E i \in DOMAIN prompt : prompt[i] = IMG_TAG
    THEN CHOOSE i \in DOMAIN prompt :
            /\ prompt[i] = IMG_TAG
            /\ \A j \in 1..(i - 1) : prompt[j] # IMG_TAG
    ELSE 0

prompt_contains_image(prompt) == find_image_tag_in_prompt(prompt) # 0

remove_image_from_prompt(prompt) ==
    LET b == find_image_tag_in_prompt(prompt)
    IN  IF b = 0 THEN prompt
        ELSE SubSeq(prompt, 1, b - 1) \o SubSeq(prompt, b + 1, Len(prompt))

\* ---------------------------------------------------------------- runtime
\* llava_init: llama_load_model_from_file returns a model handle or NULL
llava_init(p, h) ==
    { [model |-> NULL, heap |-> h],
      [model |-> Len(h.models) + 1, heap |-> [h EXCEPT !.models = Append(@, 0)]] }

\* llava_init_context: llama_new_context_with_model returns a context or NULL
\* (the runtime decides; nothing in this file ties its answer to the model
\* pointer it is given); with a context, the llava_context is allocated and
\* holds the model pointer
llava_init_context(p, model, h) ==
    { [ctx |-> NULL, heap |-> h],
      [ctx |-> Len(h.ctxs) + 1,
       heap |-> [h EXCEPT !.ctxs = Append(@, [model |-> model, freed |-> 0])]] }

\* load_image: the Vision Encoder makes an embedding from the base64 image of
\* params->prompt (and then removes it from params->prompt) or from the file
\* fname; it returns the embedding or NULL.  It reads ctx_llava->ctx_clip: with
\* ctx_llava NULL that is a null dereference, after which the process dies or
\* goes on with whatever the read gave.
load_image(ctx_llava, p, fname, h) ==
    LET made == [embed |-> Len(h.embeds) + 1,
                 params |-> IF prompt_contains_image(p.prompt)
                            THEN [p EXCEPT !.prompt = remove_image_from_prompt(p.prompt)]
                            ELSE p,
                 heap |-> [h EXCEPT !.embeds = Append(@, 0)],
                 end |-> "ok", called |-> TRUE, nullDeref |-> ctx_llava = NULL]
        none == [embed |-> NULL, params |-> p, heap |-> h,
                 end |-> "ok", called |-> TRUE, nullDeref |-> ctx_llava = NULL]
        dies == [embed |-> NULL, params |-> p, heap |-> h,
                 end |-> "crash", called |-> FALSE, nullDeref |-> TRUE]
    IN  IF ctx_llava = NULL THEN {dies, made, none} ELSE {made, none}

\* ---------------------------------------------------------------- handlers
\* extract_params: false on a parse error or a missing key; the conversion of a
\* non-string value to std::string throws json::type_error, which the
\* catch (parse_error) does not catch.  prompt and image are assigned to the
\* callee's copy d.
\* extract_params with && for || in the test of the required keys
extract_params_anykey(data, d) ==
    IF ~data.json THEN [ret |-> "false", d |-> d]
    ELSE IF ~("prompt" \in data.keys) /\ ~("image" \in data.keys) THEN [ret |-> "false", d |-> d]
    ELSE IF ~data.strings THEN [ret |-> "throw", d |-> d]
    ELSE [ret |-> "true",
          d |-> [d EXCEPT !.prompt = PromptOf(data), !.image = ImageOf(data)]]

extract_params(data, d) ==
    IF ~data.json THEN [ret |-> "false", d |-> d]
    ELSE IF ~({"prompt", "image"} \subseteq data.keys) THEN [ret |-> "false", d |-> d]
    ELSE IF ~data.strings THEN [ret |-> "throw", d |-> d]
    ELSE [ret |-> "true",
          d |-> [d EXCEPT !.prompt = PromptOf(data), !.image = ImageOf(data)]]

\* turn_setup: the context goes into the callee's copy d, the embedding into a
\* local variable; true iff the embedding is not NULL
\* turn_setup without the test of the embedding: it returns true
turn_setup_unchecked(d, p, h) ==
    UNION { { [ok |-> TRUE,
               d |-> [d EXCEPT !.ctx_llava = c.ctx],
               params |-> e.params, heap |-> e.heap, end |-> e.end,
               eff |-> [NoEffect EXCEPT !.ctxCall = TRUE, !.ctxNew = c.ctx,
                                        !.embedCall = e.called, !.embedNew = e.embed,
                                        !.nullDeref = e.nullDeref]]
              : e \in load_image(c.ctx, p, d.image, c.heap) }
            : c \in llava_init_context(p, d.model, h) }

turn_setup(d, p, h) ==
    UNION { { [ok |-> e.embed # NULL,
               d |-> [d EXCEPT !.ctx_llava = c.ctx],
               params |-> e.params, heap |-> e.heap, end |-> e.end,
               eff |-> [NoEffect EXCEPT !.ctxCall = TRUE, !.ctxNew = c.ctx,
                                        !.embedCall = e.called, !.embedNew = e.embed,
                                        !.nullDeref = e.nullDeref]]
              : e \in load_image(c.ctx, p, d.image, c.heap) }
            : c \in llava_init_context(p, d.model, h) }

\* llava_free: releases the context and the model pointer stored in it
llava_free(h, ctx_llava) ==
    llama_free_model([h EXCEPT !.ctxs[ctx_llava].freed = @ + 1], h.ctxs[ctx_llava].model)

\* turn_cleanup: release the embedding, detach the model, release the context.
\* llava_image_embed_free(NULL) and NULL->model are null dereferences.
turn_cleanup(d, h) ==
    LET h1 == IF d.image_embed = NULL THEN h
              ELSE [h EXCEPT !.embeds[d.image_embed] = @ + 1]
        h2 == IF d.ctx_llava = NULL THEN h1
              ELSE llava_free([h1 EXCEPT !.ctxs[d.ctx_llava].model = NULL], d.ctx_llava)
    IN  IF d.image_embed = NULL \/ d.ctx_llava = NULL
        THEN { [heap |-> h1, end |-> "crash", nullDeref |-> TRUE],
               [heap |-> h2, end |-> "ok", nullDeref |-> TRUE] }
        ELSE { [heap |-> h2, end |-> "ok", nullDeref |-> FALSE] }

\* process_prompt, as the handlers see it: it installs the grammar of the mode
\* in params->sampling, evaluates on d.ctx_llava (a null dereference when that is
\* NULL) and returns text that is JSON or is not.
process_prompt(d, p) ==
    LET p1 == [p EXCEPT !.grammar = IF d.mode = PLANNER THEN "planner" ELSE "executor"]
        ran == { [json |-> j, params |-> p1, end |-> "ok", nullDeref |-> d.ctx_llava = NULL]
                 : j \in BOOLEAN }
    IN  IF d.ctx_llava = NULL
        THEN ran \cup { [json |-> FALSE, params |-> p1, end |-> "crash", nullDeref |-> TRUE] }
        ELSE ran

\* infer: "Model not loaded" (a JSON text) when d.model is NULL; otherwise the
\* text of process_prompt, with success:true added when it is JSON
infer(d, p, h) ==
    IF d.model = NULL
    THEN { [json |-> TRUE, resp |-> R_NotLoaded, params |-> p, end |-> "ok",
            ran |-> FALSE, nullDeref |-> FALSE] }
    ELSE { [json |-> r.json, resp |-> R_ModelJson,
            params |-> [r.params EXCEPT !.prompt = <<>>], end |-> r.end,
            ran |-> TRUE, nullDeref |-> r.nullDeref]
           : r \in process_prompt(d, [p EXCEPT !.prompt = d.prompt]) }

\* a turn that forwards what infer returned without parsing it
TurnResponse_forward(i) == i.resp

\* nlohmann::json::parse(completion) at the end of a turn: the JSON itself, or
\* the "Invalid model response" failure
TurnResponse(i) == IF i.json THEN i.resp ELSE R_InvalidModel

\* planner_turn.  extract_params and turn_setup get copies of d: the caller's d
\* keeps the prompt, image and ctx_llava it had.
planner_turn(data, d, p, h) ==
    LET x == extract_params(data, d)
    IN  IF x.ret = "throw" THEN { Outcome(NoResponse, "terminate", p, h, NoEffect) }
        ELSE IF x.ret = "false" THEN { Outcome(R_InvalidPayload, "ok", p, h, NoEffect) }
        ELSE UNION {
            IF s.end # "ok" THEN { Outcome(NoResponse, s.end, s.params, s.heap, s.eff) }
            ELSE IF ~s.ok THEN { Outcome(R_TurnSetup, "ok", s.params, s.heap, s.eff) }
            ELSE { Outcome(TurnResponse(i), i.end, i.params, s.heap,
                           [s.eff EXCEPT !.inferRan = i.ran,
                                         !.nullDeref = @ \/ i.nullDeref,
                                         !.ctxUsed = IF i.ran THEN d.ctx_llava ELSE NULL,
                                         !.embedUsed = IF i.ran THEN d.image_embed ELSE NULL])
                   : i \in infer([d EXCEPT !.mode = PLANNER], s.params, s.heap) }
            : s \in turn_setup(d, p, h) }

\* executor_turn: infer on the caller's d, then turn_cleanup of the same d
executor_turn(data, d, p, h) ==
    LET x == extract_params(data, d)
    IN  IF x.ret = "throw" THEN { Outcome(NoResponse, "terminate", p, h, NoEffect) }
        ELSE IF x.ret = "false" THEN { Outcome(R_InvalidPayload, "ok", p, h, NoEffect) }
        ELSE UNION {
            LET e == [NoEffect EXCEPT !.inferRan = i.ran, !.nullDeref = i.nullDeref,
                                      !.ctxUsed = IF i.ran THEN d.ctx_llava ELSE NULL,
                                      !.embedUsed = IF i.ran THEN d.image_embed ELSE NULL]
            IN  IF i.end # "ok" THEN { Outcome(NoResponse, i.end, i.params, h, e) }
                ELSE { Outcome(TurnResponse(i), c.end, i.params, c.heap,
                               [e EXCEPT !.cleanup = TRUE, !.nullDeref = @ \/ c.nullDeref])
                       : c \in turn_cleanup(d, h) }
            : i \in infer([d EXCEPT !.mode = EXECUTOR], p, h) }

\* load_model: the new handle is assigned to the callee's copy d; the response
\* is success:true whatever llava_init returned
load_model(data, d, p, h) ==
    IF ~data.json THEN { Outcome(R_InvalidJson, "ok", p, h, NoEffect) }
    ELSE IF ~({"text_model", "vision_model"} \subseteq data.keys)
    THEN { Outcome(R_LoadMissing, "ok", p, h, NoEffect) }
    ELSE IF ~data.strings THEN { Outcome(NoResponse, "terminate", p, h, NoEffect) }
    ELSE LET p1 == [p EXCEPT !.model = TextModelOf(data), !.mmproj = VisionModelOf(data)]
         IN  { Outcome(R_Loaded, "ok", p1, r.heap,
                       [NoEffect EXCEPT !.modelCall = TRUE, !.modelNew = r.model])
               : r \in llava_init(p1, llama_free_model(h, d.model)) }

\* ---------------------------------------------------------------- dispatcher
\* inference_data data = {&params, nullptr, nullptr, nullptr, PLANNER, "", ""}
InitSession ==
    [model |-> NULL, ctx_llava |-> NULL, image_embed |-> NULL,
     mode |-> PLANNER, prompt |-> <<>>, image |-> ""]

\* common_params params, as far as the handlers touch it
InitParams == [model |-> "", mmproj |-> "", prompt |-> <<>>, grammar |-> ""]

NoLine == Line(<<>>, NoPayload)

\* branch: the branch of processRequest that took the line
Last(l, o, branch) ==
    [line |-> l, branch |-> branch, end |-> o.end, resp |-> o.resp, eff |-> o.eff]

\* process_prompt is not running
GenIdle == [pc |-> "idle"]

InitDispatcher ==
    /\ running = TRUE
    /\ pc = "read"
    /\ session = InitSession
    /\ params = InitParams
    /\ heap = EmptyHeap
    /\ inp = <<>>
    /\ out = <<>>
    /\ last = Last(NoLine, Outcome(NoResponse, "ok", InitParams, EmptyHeap, NoEffect), "none")
    /\ gen = GenIdle

\* while (running) { std::getline(std::cin, input); ... }
CanRead == pc = "read" /\ running /\ Len(inp) < MaxLines

\* a pass of the loop that writes its response ahead of the earlier ones
Handled_out_of_order(l, o, branch) ==
    /\ inp' = Append(inp, l)
    /\ out' = IF o.end = "ok" THEN <<o.resp>> \o out ELSE out
    /\ pc' = CASE o.end = "ok" -> "read"
               [] o.end = "crash" -> "crashed"
               [] OTHER -> "terminated"
    /\ params' = o.params
    /\ heap' = o.heap
    /\ last' = Last(l, o, branch)
    /\ UNCHANGED <<running, session, gen>>

\* One pass of the loop for a line answered by a handler with outcome o.  The
\* handler was given a copy of the session (std::atomic's conversion to
\* inference_data), so the session itself is what it was.
Handled(l, o, branch) ==
    /\ inp' = Append(inp, l)
    /\ out' = IF o.end = "ok" THEN Append(out, o.resp) ELSE out
    /\ pc' = CASE o.end = "ok" -> "read"
               [] o.end = "crash" -> "crashed"
               [] OTHER -> "terminated"
    /\ params' = o.params
    /\ heap' = o.heap
    /\ last' = Last(l, o, branch)
    /\ UNCHANGED <<running, session, gen>>

\* SHUTDOWN matched like the other verbs
IsShutdown_prefix(l) == StartsWith(l, SHUTDOWN_S)

\* the verb tests of processRequest, in the order of its else-if chain
IsShutdown(l) == l.text = SHUTDOWN_S /\ l.payload.len = 0
IsPlan(l) == ~IsShutdown(l) /\ StartsWith(l, PLAN_S)
IsExecute(l) == ~IsShutdown(l) /\ ~IsPlan(l) /\ StartsWith(l, EXECUTE_S)
IsLoad(l) == ~IsShutdown(l) /\ ~IsPlan(l) /\ ~IsExecute(l) /\ StartsWith(l, LOAD_S)

\* input.substr(n) throws: the exception leaves the listener thread
Thrown == Outcome(NoResponse, "terminate", params, heap, NoEffect)

\* if (!input.empty()) is false: nothing is written
HandleBlank ==
    /\ CanRead
    /\ \E l \in Lines :
        /\ IsBlank(l)
        /\ inp' = Append(inp, l)
        /\ last' = Last(l, Outcome(NoResponse, "ok", params, heap, NoEffect), "blank")
    /\ UNCHANGED <<running, pc, session, params, heap, out, gen>>

\* a SHUTDOWN branch that answers and goes on reading
HandleShutdown_goes_on ==
    /\ CanRead
    /\ \E l \in Lines :
        /\ ~IsBlank(l) /\ IsShutdown(l)
        /\ Handled(l, Outcome(R_ShuttingDown, "ok", params, heap, NoEffect), "SHUTDOWN")

\* if (input == "SHUTDOWN"): the response, running = false, break
HandleShutdown ==
    /\ CanRead
    /\ \E l \in Lines :
        /\ ~IsBlank(l) /\ IsShutdown(l)
        /\ inp' = Append(inp, l)
        /\ out' = Append(out, R_ShuttingDown)
        /\ last' = Last(l, Outcome(R_ShuttingDown, "ok", params, heap, NoEffect), "SHUTDOWN")
    /\ running' = FALSE
    /\ pc' = "stopped"
    /\ UNCHANGED <<session, params, heap, gen>>

HandlePlan ==
    /\ CanRead
    /\ \E l \in Lines :
        /\ ~IsBlank(l) /\ IsPlan(l)
        /\ \E o \in (IF SubstrThrows(l, 5) THEN {Thrown}
                   ELSE planner_turn(Substr(l, 5), session, params, heap)) : Handled(l, o, "PLAN")

HandleExecute ==
    /\ CanRead
    /\ \E l \in Lines :
        /\ ~IsBlank(l) /\ IsExecute(l)
        /\ \E o \in (IF SubstrThrows(l, 8) THEN {Thrown}
                   ELSE executor_turn(Substr(l, 8), session, params, heap)) : Handled(l, o, "EXECUTE")

HandleLoad ==
    /\ CanRead
    /\ \E l \in Lines :
        /\ ~IsBlank(l) /\ IsLoad(l)
        /\ \E o \in (IF SubstrThrows(l, 5) THEN {Thrown}
                   ELSE load_model(Substr(l, 5), session, params, heap)) : Handled(l, o, "LOAD")

HandleUnknown ==
    /\ CanRead
    /\ \E l \in Lines :
        /\ ~IsBlank(l) /\ ~IsShutdown(l) /\ ~IsPlan(l) /\ ~IsExecute(l) /\ ~IsLoad(l)
        /\ Handled(l, Outcome(R_Unknown(l), "ok", params, heap, NoEffect), "unknown")

\* main after listener.join(): llama_free_model(inference_data.load().model)
\* a loop that ends when the control channel does
ReadEof_leaves ==
    /\ pc \in {"read", "eof"} /\ running
    /\ running' = FALSE
    /\ pc' = "stopped"
    /\ UNCHANGED <<session, params, heap, inp, out, last, gen>>

\* a pass of the loop at the end of the control channel: getline fails and
\* leaves input empty, cin.clear() resets the stream, nothing is handled and
\* while (running) goes round again; every later pass is the same
ReadEof ==
    /\ pc \in {"read", "eof"} /\ running
    /\ pc' = "eof"
    /\ UNCHANGED <<running, session, params, heap, inp, out, last, gen>>

Exit ==
    /\ pc = "stopped"
    /\ pc' = "exited"
    /\ heap' = llama_free_model(heap, session.model)
    /\ UNCHANGED <<running, session, params, inp, out, last, gen>>

Init == InitDispatcher

Next ==
    \/ HandleBlank
    \/ HandleShutdown
    \/ HandlePlan
    \/ HandleExecute
    \/ HandleLoad
    \/ HandleUnknown
    \/ ReadEof
    \/ Exit

Spec == Init /\ [][Next]_vars

\* ---------------------------------------------------------------- generation
\* bounds of the inputs of one process_prompt run
MaxBatch == 2
MaxTokens == 2
MaxGrid == 2
MaxPredict == 2

\* the largest budget of a run over MarkerPieces: a marker that comes in two
\* fragments stops generation ahead of the budget only if the budget is larger
MaxMarkerPredict == MaxPredict + 1

\* max_tgt_len when params->n_predict is negative
DefaultTgtLen == 256

Max(a, b) == IF a > b THEN a ELSE b

\* text as a sequence of characters
EOG_S == <<"<", "/", "s", ">">>
HASHES_S == <<"#", "#", "#">>
IM_END_S == <<"<", "|", "i", "m", "_", "e", "n", "d", "|", ">">>
IM_START_S == <<"<", "|", "i", "m", "_", "s", "t", "a", "r", "t", "|", ">">>
USER_S == <<"U", "S", "E", "R", ":">>

\* the pieces common_token_to_piece may give for a sampled token
Pieces == { <<"{", "}">>, <<"x">>, HASHES_S }

\* the pieces of a vocabulary that spells the stop markers: "<|im_end|>" in two
\* fragments, "<|im_start|>" and "USER:" whole, "###", and ordinary tokens whose
\* text is, or ends with, the characters "</s>"
MarkerPieces ==
    { <<"x">>, HASHES_S, IM_START_S, USER_S, EOG_S, <<"x">> \o EOG_S,
      <<"<", "|", "i", "m", "_">>, <<"e", "n", "d", "|", ">">> }

\* strstr(s, pat) != NULL
Contains(s, pat) ==
    \E k \in 1..(Len(s) - Len(pat) + 1) : SubSeq(s, k, k + Len(pat) - 1) = pat

\* nlohmann::json::parse(text) succeeds.  Over the characters of Pieces and of
\* "</s>" the only JSON text is the empty object.
IsJson(text) == text = <<"{", "}">>

\* positions that give every token of a chunk the cursor itself
text_pos_flat(n, c) == [j \in 0..(4 * n - 1) |-> IF j < 3 * n THEN c ELSE 0]

\* the pos buffer of a text chunk of n tokens, cursor at c: resize(n * 4), fill
\* with 0, then pos[j] = *st_pos_id + (j % n) for j < 3 * n
text_pos(n, c) == [j \in 0..(4 * n - 1) |-> IF j < 3 * n THEN c + (j % n) ELSE 0]

\* eval_tokens from token index i: slice k of n_eval tokens is handed to
\* llama_decode; the runtime rejects slice number failAt (0: none), and then the
\* function returns false at once.  slices lists the slices handed over.
RECURSIVE eval_tokens_from(_, _, _, _, _, _, _)
eval_tokens_from(i, N, n_batch, n_past, st_pos_id, k, failAt) ==
    IF i >= N
    THEN [ok |-> TRUE, n_past |-> n_past, st_pos_id |-> st_pos_id, slices |-> <<>>]
    ELSE LET n_eval == IF N - i > n_batch THEN n_batch ELSE N - i
             slice == [first |-> i, n |-> n_eval, n_past |-> n_past,
                       cursor |-> st_pos_id, pos |-> text_pos(n_eval, st_pos_id)]
         IN  IF k = failAt
             THEN [ok |-> FALSE, n_past |-> n_past, st_pos_id |-> st_pos_id,
                   slices |-> <<slice>>]
             ELSE LET r == eval_tokens_from(i + n_batch, N, n_batch, n_past + n_eval,
                                            st_pos_id + n_eval, k + 1, failAt)
                  IN  [r EXCEPT !.slices = <<slice>> \o @]

\* an evaluator that hands all N tokens over as one slice
eval_tokens_one_slice(N, n_batch, n_past, st_pos_id, failAt) ==
    eval_tokens_from(0, N, Max(N, 1), n_past, st_pos_id, 1, failAt)

\* an evaluator that submits the slices after a rejected one all the same
eval_tokens_goes_on(N, n_batch, n_past, st_pos_id, failAt) ==
    [eval_tokens_from(0, N, n_batch, n_past, st_pos_id, 1, 0) EXCEPT !.ok = (failAt = 0)]

eval_tokens(N, n_batch, n_past, st_pos_id, failAt) ==
    eval_tokens_from(0, N, n_batch, n_past, st_pos_id, 1, failAt)

\* eval_id: one token, batch size 1
eval_id(n_past, st_pos_id, fail) ==
    eval_tokens(1, 1, n_past, st_pos_id, IF fail THEN 1 ELSE 0)

\* eval_string: the N tokens of the string go through eval_tokens, whose result
\* is dropped: eval_string returns true.  rejected keeps what eval_tokens said.
eval_string(N, n_batch, n_past, st_pos_id, failAt) ==
    LET r == eval_tokens(N, n_batch, n_past, st_pos_id, failAt)
    IN  [ok |-> TRUE, rejected |-> ~r.ok, n_past |-> r.n_past,
         st_pos_id |-> r.st_pos_id, slices |-> r.slices]

\* a position buffer of n entries, indexed from 0 and zero-filled by resize;
\* oob records a write past its end
PosBuffer(n) == [cells |-> [j \in 0..(n - 1) |-> 0], oob |-> FALSE]

\* buf[idx] = v
Write(buf, idx, v) ==
    IF idx \in DOMAIN buf.cells THEN [buf EXCEPT !.cells[idx] = v]
    ELSE [buf EXCEPT !.oob = TRUE]

\* a layout with the row plane and the column plane exchanged
patch_pos_transposed(c, x, y) == <<c, c + x, c + y, 0>>

\* the four values written for the patch in column x of row y, cursor at c
patch_pos(c, x, y) == <<c, c + y, c + x, 0>>

\* the layout loop of qwen2vl_eval_image_embed from patch k on (row by row):
\* the values of patch i = y * pw + x go to i, i + img_tokens,
\* i + 2 * img_tokens and i + 3 * img_tokens
RECURSIVE mrope_from(_, _, _, _, _, _)
mrope_from(k, buf, img_tokens, pw, ph, c) ==
    IF k >= pw * ph THEN buf
    ELSE LET y == k \div pw
             x == k % pw
             i == y * pw + x
             v == patch_pos(c, x, y)
             b1 == Write(buf, i, v[1])
             b2 == Write(b1, i + img_tokens, v[2])
             b3 == Write(b2, i + img_tokens * 2, v[3])
             b4 == Write(b3, i + img_tokens * 3, v[4])
         IN  mrope_from(k + 1, b4, img_tokens, pw, ph, c)

\* mrope_pos after the layout loop
mrope_layout(img_tokens, pw, ph, st_pos_id) ==
    mrope_from(0, PosBuffer(img_tokens * 4), img_tokens, pw, ph, st_pos_id)

\* a chunk buffer copied from the start of every plane
batch_mrope_pos_unshifted(mrope_pos, img_tokens, processed, n_eval) ==
    [j \in 0..(4 * n_eval - 1) |->
        mrope_pos.cells[img_tokens * (j \div n_eval) + (j % n_eval)]]

\* batch_mrope_pos as the runtime reads it (4 * n_eval entries): the four
\* memcpy of n_eval entries from mrope_pos[img_tokens * p + processed] to
\* batch_mrope_pos[n_eval * p]
batch_mrope_pos(mrope_pos, img_tokens, processed, n_eval) ==
    [j \in 0..(4 * n_eval - 1) |->
        mrope_pos.cells[img_tokens * (j \div n_eval) + processed + (j % n_eval)]]

\* the chunk loop of qwen2vl_eval_image_embed, from image token i with
\* processed tokens evaluated so far
RECURSIVE image_chunks_from(_, _, _, _, _, _, _, _)
image_chunks_from(i, processed, mrope_pos, img_tokens, n_batch, n_past, k, failAt) ==
    IF i >= img_tokens
    THEN [ok |-> TRUE, n_past |-> n_past, slices |-> <<>>]
    ELSE LET n_eval == IF img_tokens - i > n_batch THEN n_batch ELSE img_tokens - i
             slice == [first |-> i, n |-> n_eval, n_past |-> n_past,
                       pos |-> batch_mrope_pos(mrope_pos, img_tokens, processed, n_eval)]
         IN  IF k = failAt
             THEN [ok |-> FALSE, n_past |-> n_past, slices |-> <<slice>>]
             ELSE LET r == image_chunks_from(i + n_batch, processed + n_eval, mrope_pos,
                                             img_tokens, n_batch, n_past + n_eval,
                                             k + 1, failAt)
                  IN  [r EXCEPT !.slices = <<slice>> \o @]

\* an evaluator that advances the cursor with every chunk
qwen2vl_eval_image_embed_per_chunk(img_tokens, pw, ph, n_batch, n_past, st_pos_id, failAt) ==
    LET m == mrope_layout(img_tokens, pw, ph, st_pos_id)
        r == image_chunks_from(0, 0, m, img_tokens, n_batch, n_past, 1, failAt)
    IN  [ok |-> r.ok, n_past |-> r.n_past,
         st_pos_id |-> st_pos_id + Max(pw, ph) * Len(r.slices),
         slices |-> r.slices, mrope_pos |-> m]

\* qwen2vl_eval_image_embed: the layout, then the cursor advances by
\* max(pw, ph) once, before the chunks are evaluated
qwen2vl_eval_image_embed(img_tokens, pw, ph, n_batch, n_past, st_pos_id, failAt) ==
    LET m == mrope_layout(img_tokens, pw, ph, st_pos_id)
        r == image_chunks_from(0, 0, m, img_tokens, n_batch, n_past, 1, failAt)
    IN  [ok |-> r.ok, n_past |-> r.n_past, st_pos_id |-> st_pos_id + Max(pw, ph),
         slices |-> r.slices, mrope_pos |-> m]

\* the number of slices a sequence of N items makes
NumSlices(N, n_batch) == (N + n_batch - 1) \div n_batch

\* the tokens common_sampler_sample may give: the end-of-generation token, or a
\* token with a piece
TokensOf(pieces) ==
    {[eog |-> TRUE, piece |-> <<>>]} \cup {[eog |-> FALSE, piece |-> q] : q \in pieces}

Tokens == TokensOf(Pieces)

\* no token has been sampled
NoToken == [eog |-> FALSE, piece |-> <<>>]

\* sample: "</s>" for an end-of-generation token, the token's piece otherwise;
\* the token is fed back through eval_id, whose result is dropped
sample(token, n_past, st_pos_id, fail) ==
    LET r == eval_id(n_past, st_pos_id, fail)
    IN  [ret |-> IF token.eog THEN EOG_S ELSE token.piece, rejected |-> ~r.ok,
         n_past |-> r.n_past, st_pos_id |-> r.st_pos_id, slices |-> r.slices,
         fed |-> [tokens |-> <<token>>, ok |-> r.ok]]

\* break conditions that look for every marker in the last fragment only
StopsAfter_fragment_only(tmp, response) ==
    \/ tmp = EOG_S
    \/ Contains(tmp, HASHES_S)
    \/ Contains(tmp, IM_END_S)
    \/ Contains(tmp, IM_START_S)
    \/ Contains(tmp, USER_S)

\* the break conditions of the generation loop, after response += tmp
StopsAfter(tmp, response) ==
    \/ tmp = EOG_S
    \/ Contains(tmp, HASHES_S)
    \/ Contains(response, IM_END_S)
    \/ Contains(response, IM_START_S)
    \/ Contains(response, USER_S)

\* the end of process_prompt: a trailing "</s>" is cut off
Trimmed(response) ==
    IF Len(response) >= 4 /\ SubSeq(response, Len(response) - 3, Len(response)) = EOG_S
    THEN SubSeq(response, 1, Len(response) - 4)
    ELSE response

\* result_json.dump() of infer for a text that parsed: the model's own JSON
\* (carried in input) with "success" set to true
ModelJson(text) == [success |-> TRUE, reason |-> "<model json>", input |-> text]

\* the end of infer: the dump with success added when the text parses, the text
\* itself (which does not parse in the turn either) when it does not
InferReturn(result) == [json |-> IsJson(result), resp |-> ModelJson(result)]

\* what infer and the turn make of the text process_prompt returned
GenResponse(result) == TurnResponse(InferReturn(result))

\* a generation loop that makes one pass more
max_tgt_len_one_more(n_predict) == (IF n_predict < 0 THEN DefaultTgtLen ELSE n_predict) + 1

max_tgt_len(n_predict) == IF n_predict < 0 THEN DefaultTgtLen ELSE n_predict

\* nothing has been fed back to the runtime
NoFed == [tokens |-> <<>>, ok |-> TRUE]

\* the vocabulary of the runs with n_predict = -1
LongPieces == { <<"x">> }

\* the prompt of a run is a sequence of parts of text
VISION_START_S == "<|vision_start|>"
VISION_END_S == "<|vision_end|>"

\* what substr(image_pos + length of "<|vision_pad|>") leaves of the longer
\* "<|vision_start|>" found at image_pos
VisionStartRest == "|>"

PlainPrompt == <<"task">>
DelimitedPrompt == <<"sys", VISION_START_S, "usr">>
Prompts == {PlainPrompt, DelimitedPrompt}

\* prompt.find("<|vision_start|>"): the index of the first such part, 0 (npos)
\* if there is none
find_vision_start(prompt) ==
    IF \E i \in DOMAIN prompt : prompt[i] = VISION_START_S
    THEN CHOOSE i \in DOMAIN prompt :
            /\ prompt[i] = VISION_START_S
            /\ \A j \in 1..(i - 1) : prompt[j] # VISION_START_S
    ELSE 0

general_prompt(mode) ==
    IF mode = PLANNER THEN "PLANNER_SYSTEM_PROMPT" ELSE "EXECUTOR_SYSTEM_PROMPT"

\* a template that never adds the vision markers
prompt_segments_unmarked(mode, hasImage, prompt) ==
    [system |-> <<"<|im_start|>system\n", general_prompt(mode),
                  "<|im_end|>\n<|im_start|>user\n">>,
     user |-> prompt \o <<"<|im_end|>\n<|im_start|>assistant\n">>]

\* system_prompt and user_prompt of process_prompt: the prompt split at
\* "<|vision_start|>" when it holds one, the role-wrapped template otherwise
prompt_segments(mode, hasImage, prompt) ==
    LET image_pos == find_vision_start(prompt)
    IN  IF image_pos # 0
        THEN [system |-> SubSeq(prompt, 1, image_pos - 1),
              user |-> <<VisionStartRest>> \o SubSeq(prompt, image_pos + 1, Len(prompt))]
        ELSE IF hasImage
        THEN [system |-> <<"<|im_start|>system\n", general_prompt(mode),
                           "<|im_end|>\n<|im_start|>user\n", VISION_START_S>>,
              user |-> <<VISION_END_S>> \o prompt
                           \o <<"<|im_end|>\n<|im_start|>assistant\n">>]
        ELSE [system |-> <<"<|im_start|>system\n", general_prompt(mode),
                           "<|im_end|>\n<|im_start|>user\n">>,
              user |-> prompt \o <<"<|im_end|>\n<|im_start|>assistant\n">>]

\* what process_prompt hands to the runtime before the sampler: a segment of
\* text (eval_string) or the image embedding (qwen2vl_eval_image_embed)
TextEval(text, add_bos) == [kind |-> "text", text |-> text, add_bos |-> add_bos]
ImageEval == [kind |-> "image", text |-> <<>>, add_bos |-> FALSE]

\* process_prompt at its first evaluation: n_past = 0, cur_pos_id = 0.  mode is
\* the command the run belongs to, pieces the vocabulary of the loaded model.
GenStart(mode, pieces, prompt, hasImage, n_batch, nSys, nUser, pw, ph, n_predict) ==
    [pc |-> "system", mode |-> mode, pieces |-> pieces, token |-> NoToken,
     prompt |-> prompt,
     system_prompt |-> prompt_segments(mode, hasImage, prompt).system,
     user_prompt |-> prompt_segments(mode, hasImage, prompt).user,
     evals |-> <<>>,
     hasImage |-> hasImage, n_batch |-> n_batch,
     nSys |-> nSys, nUser |-> nUser, pw |-> pw, ph |-> ph, n_predict |-> n_predict,
     n_past |-> 0, st_pos_id |-> 0, i |-> 0, response |-> <<>>,
     failed |-> FALSE, evalAfterFail |-> FALSE, result |-> <<>>, resp |-> NoResponse,
     mrope_pos |-> PosBuffer(0), fed |-> NoFed]

InitGen ==
    /\ running = TRUE
    /\ pc = "read"
    /\ session = InitSession
    /\ params = InitParams
    /\ heap = EmptyHeap
    /\ inp = <<>>
    /\ out = <<>>
    /\ last = Last(NoLine, Outcome(NoResponse, "ok", InitParams, EmptyHeap, NoEffect), "none")
    /\ \E hasImage \in BOOLEAN, n_batch \in 1..MaxBatch, nSys, nUser \in 1..MaxTokens,
          pw, ph \in 1..MaxGrid, n_predict \in 0..MaxMarkerPredict,
          pieces \in {Pieces, MarkerPieces}, prompt \in Prompts :
        /\ ~hasImage => (pw = 1 /\ ph = 1)
        /\ pieces = Pieces => n_predict <= MaxPredict
        /\ pieces = MarkerPieces =>
              (n_batch = 1 /\ nSys = 1 /\ nUser = 1 /\ pw = 1 /\ ph = 1)
        /\ prompt # PlainPrompt =>
              (pieces = Pieces /\ n_batch = 1 /\ nSys = 1 /\ nUser = 1
                  /\ pw = 1 /\ ph = 1 /\ n_predict <= 1)
        /\ gen = GenStart(PLANNER, pieces, prompt, hasImage, n_batch, nSys, nUser, pw, ph,
                          n_predict)

\* the runs of process_prompt over every sign of n_predict: -1 (the default of
\* common_params) with one-token segments and the vocabulary LongPieces, 0 and
\* more with the vocabulary Pieces
InitGenLong ==
    /\ running = TRUE
    /\ pc = "read"
    /\ session = InitSession
    /\ params = InitParams
    /\ heap = EmptyHeap
    /\ inp = <<>>
    /\ out = <<>>
    /\ last = Last(NoLine, Outcome(NoResponse, "ok", InitParams, EmptyHeap, NoEffect), "none")
    /\ \E hasImage \in BOOLEAN, n_predict \in (-1)..MaxPredict :
        /\ n_predict < 0 => ~hasImage
        /\ gen = GenStart(IF n_predict < 0 THEN EXECUTOR ELSE PLANNER,
                          IF n_predict < 0 THEN LongPieces ELSE Pieces, PlainPrompt,
                          hasImage, 1, 1, 1, 1, 1, n_predict)

\* what an evaluation r adds to the record of the run
Evaluated(g, r, rejected) ==
    [g EXCEPT !.n_past = r.n_past, !.st_pos_id = r.st_pos_id,
              !.failed = @ \/ rejected,
              !.evalAfterFail = @ \/ (g.failed /\ r.slices # <<>>)]

\* eval_string(system_prompt, ..., add_bos = true)
GenEvalSystem ==
    /\ gen.pc = "system"
    /\ \E failAt \in 0..NumSlices(gen.nSys, gen.n_batch) :
        LET r == eval_string(gen.nSys, gen.n_batch, gen.n_past, gen.st_pos_id, failAt)
        IN  gen' = [Evaluated(gen, r, r.rejected) EXCEPT
                        !.pc = IF gen.hasImage THEN "image" ELSE "user",
                        !.evals = Append(@, TextEval(gen.system_prompt, TRUE))]
    /\ UNCHANGED <<running, pc, session, params, heap, inp, out, last>>

\* if (image_embed != nullptr) qwen2vl_eval_image_embed(...), result dropped
GenEvalImage ==
    /\ gen.pc = "image"
    /\ \E failAt \in 0..NumSlices(gen.pw * gen.ph, gen.n_batch) :
        LET r == qwen2vl_eval_image_embed(gen.pw * gen.ph, gen.pw, gen.ph, gen.n_batch,
                                          gen.n_past, gen.st_pos_id, failAt)
        IN  gen' = [Evaluated(gen, r, ~r.ok) EXCEPT !.pc = "user",
                                                    !.mrope_pos = r.mrope_pos,
                                                    !.evals = Append(@, ImageEval)]
    /\ UNCHANGED <<running, pc, session, params, heap, inp, out, last>>

\* eval_string(user_prompt, ..., add_bos = false)
GenEvalUser ==
    /\ gen.pc = "user"
    /\ \E failAt \in 0..NumSlices(gen.nUser, gen.n_batch) :
        LET r == eval_string(gen.nUser, gen.n_batch, gen.n_past, gen.st_pos_id, failAt)
        IN  gen' = [Evaluated(gen, r, r.rejected) EXCEPT
                        !.pc = "smpl",
                        !.evals = Append(@, TextEval(gen.user_prompt, FALSE))]
    /\ UNCHANGED <<running, pc, session, params, heap, inp, out, last>>

\* common_sampler_init: without a sampler process_prompt returns ""
GenSamplerInit ==
    /\ gen.pc = "smpl"
    /\ \/ gen' = [gen EXCEPT !.pc = "done", !.result = <<>>, !.resp = GenResponse(<<>>)]
       \/ gen' = [gen EXCEPT !.pc = IF 0 < max_tgt_len(gen.n_predict) THEN "sample" ELSE "trim"]
    /\ UNCHANGED <<running, pc, session, params, heap, inp, out, last>>

\* one pass of for (i = 0; i < max_tgt_len; i++)
GenSample ==
    /\ gen.pc = "sample"
    /\ \E token \in TokensOf(gen.pieces), fail \in BOOLEAN :
        LET r == sample(token, gen.n_past, gen.st_pos_id, fail)
            response == gen.response \o r.ret
            g == [Evaluated(gen, r, r.rejected) EXCEPT !.response = response,
                                                      !.token = token, !.fed = r.fed]
        IN  gen' = IF StopsAfter(r.ret, response) \/ ~(gen.i + 1 < max_tgt_len(gen.n_predict))
                   THEN [g EXCEPT !.pc = "trim"]
                   ELSE [g EXCEPT !.i = @ + 1]
    /\ UNCHANGED <<running, pc, session, params, heap, inp, out, last>>

\* common_sampler_free, the trim of "</s>", return response; infer and the turn
\* make the RESPONSE of the returned text
GenFinish ==
    /\ gen.pc = "trim"
    /\ gen' = [gen EXCEPT !.pc = "done", !.result = Trimmed(gen.response),
                          !.resp = GenResponse(Trimmed(gen.response))]
    /\ UNCHANGED <<running, pc, session, params, heap, inp, out, last>>

\* the EXECUTE of the turn: executor_turn calls infer, and process_prompt
\* starts again with its own n_past = 0 and cur_pos_id = 0
GenExecute ==
    /\ gen.pc = "done"
    /\ gen.mode = PLANNER
    /\ gen' = GenStart(EXECUTOR, gen.pieces, gen.prompt, gen.hasImage, gen.n_batch,
                       gen.nSys, gen.nUser, gen.pw, gen.ph, gen.n_predict)
    /\ UNCHANGED <<running, pc, session, params, heap, inp, out, last>>

NextGen ==
    \/ GenExecute
    \/ GenEvalSystem
    \/ GenEvalImage
    \/ GenEvalUser
    \/ GenSamplerInit
    \/ GenSample
    \/ GenFinish

SpecGen == InitGen /\ [][NextGen]_vars

SpecGenLong == InitGenLong /\ [][NextGen]_vars

\* ------------------------------------------------------------ the evaluators
\* eval_tokens, eval_id and qwen2vl_eval_image_embed as functions of their
\* arguments: one call each, from any token count, batch size and counters.
MaxEvalTokens == 3

PatchSize == 28

\* ph, pw: a length divided by patch_size * 2, rounded up
patches(len) == len \div PatchSize + (IF len % PatchSize > 0 THEN 1 ELSE 0)

\* the shortest and the longest length of every patch count
ImageLengths ==
    {PatchSize * g : g \in 1..MaxGrid} \cup {PatchSize * (g - 1) + 1 : g \in 1..MaxGrid}

NoEval ==
    [ok |-> TRUE, n_past |-> 0, st_pos_id |-> 0, slices |-> <<>>,
     mrope_pos |-> PosBuffer(0), end |-> "none"]

\* fn is the evaluator called; N its token count (n_image_pos of the embedding
\* for the image evaluator)
EvalStart(fn, N, width, height, n_batch, n_past, st_pos_id) ==
    [pc |-> "call", fn |-> fn, N |-> N, width |-> width, height |-> height,
     n_batch |-> n_batch, n_past |-> n_past, st_pos_id |-> st_pos_id,
     failAt |-> 0, r |-> NoEval]

Returned(g, failAt, r, end) ==
    [g EXCEPT !.pc = "returned", !.failAt = failAt,
              !.r = [ok |-> r.ok, n_past |-> r.n_past, st_pos_id |-> r.st_pos_id,
                     slices |-> r.slices, mrope_pos |-> r.mrope_pos, end |-> end]]

InitEval ==
    /\ running = TRUE
    /\ pc = "read"
    /\ session = InitSession
    /\ params = InitParams
    /\ heap = EmptyHeap
    /\ inp = <<>>
    /\ out = <<>>
    /\ last = Last(NoLine, Outcome(NoResponse, "ok", InitParams, EmptyHeap, NoEffect), "none")
    /\ \E n_batch \in 1..MaxBatch, n_past \in 0..MaxTokens, st_pos_id \in 0..MaxTokens :
          \/ \E N \in 0..MaxEvalTokens :
                gen = EvalStart("eval_tokens", N, 0, 0, n_batch, n_past, st_pos_id)
          \/ /\ n_batch = 1
             /\ gen = EvalStart("eval_id", 1, 0, 0, 1, n_past, st_pos_id)
          \/ \E N \in 1..(MaxGrid * MaxGrid), width \in ImageLengths, height \in ImageLengths :
                gen = EvalStart("image", N, width, height, n_batch, n_past, st_pos_id)

\* one call of eval_tokens; the runtime rejects slice failAt (0: none)
EvalTokensCall ==
    /\ gen.pc = "call" /\ gen.fn = "eval_tokens"
    /\ \E failAt \in 0..NumSlices(gen.N, gen.n_batch) :
          LET r == eval_tokens(gen.N, gen.n_batch, gen.n_past, gen.st_pos_id, failAt)
          IN  gen' = Returned(gen, failAt, r @@ [mrope_pos |-> PosBuffer(0)], "ok")
    /\ UNCHANGED <<running, pc, session, params, heap, inp, out, last>>

\* one call of eval_id
EvalIdCall ==
    /\ gen.pc = "call" /\ gen.fn = "eval_id"
    /\ \E failAt \in 0..1 :
          LET r == eval_id(gen.n_past, gen.st_pos_id, failAt = 1)
          IN  gen' = Returned(gen, failAt, r @@ [mrope_pos |-> PosBuffer(0)], "ok")
    /\ UNCHANGED <<running, pc, session, params, heap, inp, out, last>>

\* one call of qwen2vl_eval_image_embed; a write outside mrope_pos is undefined
\* behaviour: the call crashes or goes on
EvalImageCall ==
    /\ gen.pc = "call" /\ gen.fn = "image"
    /\ \E failAt \in 0..NumSlices(gen.N, gen.n_batch) :
          LET r == qwen2vl_eval_image_embed(gen.N, patches(gen.width), patches(gen.height),
                                            gen.n_batch, gen.n_past, gen.st_pos_id, failAt)
          IN  \E end \in (IF r.mrope_pos.oob THEN {"ok", "crash"} ELSE {"ok"}) :
                gen' = Returned(gen, failAt, r, end)
    /\ UNCHANGED <<running, pc, session, params, heap, inp, out, last>>

NextEval ==
    \/ EvalTokensCall
    \/ EvalIdCall
    \/ EvalImageCall

SpecEval == InitEval /\ [][NextEval]_vars

\* ---------------------------------------------------------------- properties
PlanLine(p) == Line(PLAN_S \o <<" ">>, p)
ExecuteLine(p) == Line(EXECUTE_S \o <<" ">>, p)
LoadLine(p) == Line(LOAD_S \o <<" ">>, p)

RECURSIVE SumSeq(_)
SumSeq(q) == IF q = <<>> THEN 0 ELSE Head(q) + SumSeq(Tail(q))

\* the number of release calls the runtime has seen
Releases(h) ==
    SumSeq(h.models) + SumSeq(h.embeds) + SumSeq([c \in DOMAIN h.ctxs |-> h.ctxs[c].freed])

\* the number of non-blank lines of a sequence of lines
RECURSIVE NonBlank(_)
NonBlank(q) ==
    IF q = <<>> THEN 0
    ELSE (IF IsBlank(Head(q)) THEN 0 ELSE 1) + NonBlank(Tail(q))

\* C1: after any sequence of LOAD, PLAN and EXECUTE commands at most one Turn
\* Context has been created and not yet released.
C1_AtMostOneTurnContext == Cardinality(LiveCtxs(heap)) <= 1

\* C2: after LOAD (the model loaded), PLAN, EXECUTE with valid payloads no Turn
\* Context is live, and an EXECUTE issued next is answered success:false without
\* running inference on, or releasing, a Turn Context that is gone.
C2_ExecuteEndsTurn ==
    LET lpe == <<LoadLine(LoadPayload), PlanLine(TurnPayload), ExecuteLine(TurnPayload)>>
    IN  /\ (inp = lpe /\ LiveModels(heap) # {}) => LiveCtxs(heap) = {}
        /\ (inp = Append(lpe, ExecuteLine(TurnPayload)) /\ LiveModels(heap) # {}) =>
              /\ last.end = "ok"
              /\ last.resp.success = FALSE
              /\ ~last.eff.inferRan
              /\ ~last.eff.cleanup

\* a PLAN has just completed after a successful turn setup
PlanSetUp(l) ==
    /\ l.line = PlanLine(TurnPayload)
    /\ l.end = "ok"
    /\ l.eff.ctxNew # NULL
    /\ l.eff.embedNew # NULL

\* C3: when a PLAN completes after a successful turn setup, the Turn Context and
\* the Image Embedding of that setup are unreleased and are the ones the session
\* holds; the immediately following EXECUTE runs inference on exactly them,
\* creating no context and calling no Vision Encoder.
C3_PlanRetainsTurn ==
    [][ /\ (inp' # inp /\ PlanSetUp(last')) =>
              /\ last'.eff.ctxNew \in LiveCtxs(heap')
              /\ last'.eff.embedNew \in LiveEmbeds(heap')
              /\ session'.ctx_llava = last'.eff.ctxNew
              /\ session'.image_embed = last'.eff.embedNew
        /\ (inp' # inp /\ PlanSetUp(last) /\ last'.line = ExecuteLine(TurnPayload)) =>
              /\ last'.eff.inferRan
              /\ last'.eff.ctxUsed = last.eff.ctxNew
              /\ last'.eff.embedUsed = last.eff.embedNew
              /\ ~last'.eff.ctxCall
              /\ ~last'.eff.embedCall ]_vars

\* C4: every non-blank line read is answered by exactly one RESPONSE line before
\* the next line is read, whatever its content; a blank line by none.
C4_OneResponsePerLine == Len(out) = NonBlank(inp)

\* a PLAN or EXECUTE line whose payload is JSON without "prompt" or without "image"
MissingFields(l) ==
    /\ IsPlan(l) \/ IsExecute(l)
    /\ l.payload.len > 0
    /\ l.payload.json
    /\ ~({"prompt", "image"} \subseteq l.payload.keys)

\* C5: a PLAN or EXECUTE whose payload is valid JSON lacking "prompt" or "image"
\* is answered success:false with the missing-fields reason; no Turn Context is
\* created, nothing is released, and the session state is what it was.
C5_MissingFieldsNoOp ==
    [][ (inp' # inp /\ MissingFields(last'.line)) =>
            /\ out' = Append(out, R_InvalidPayload)
            /\ last'.resp = R_InvalidPayload
            /\ last'.eff = NoEffect
            /\ heap' = heap
            /\ session' = session
            /\ params' = params
            /\ pc' = "read" ]_vars

C5_Witness ==
    /\ inp # <<>>
    /\ last.line = PlanLine(ImageOnly)
    /\ last.resp = R_InvalidPayload
    /\ heap.ctxs # <<>>

\* C6: a LOAD with text_model and vision_model is answered success:true if and
\* only if the runtime loaded the model.
C6_LoadReportsFailure ==
    (last.line = LoadLine(LoadPayload) /\ last.end = "ok") =>
        (last.resp.success <=> last.eff.modelNew # NULL)

\* C7: at most one model handle is live at any time, and after SHUTDOWN and
\* process exit every handle the runtime returned has been released exactly once.
C7_ModelsReleasedOnce ==
    /\ Cardinality(LiveModels(heap)) <= 1
    /\ pc = "exited" => \A m \in DOMAIN heap.models : heap.models[m] = 1

\* C8: the handle installed by a successful LOAD is the session's model for the
\* later commands: a PLAN or EXECUTE after it is never answered "Model not
\* loaded", and an EXECUTE's cleanup does not release it.
C8_LoadedModelPersists ==
    /\ (last.line = LoadLine(LoadPayload) /\ last.eff.modelNew # NULL) =>
            session.model = last.eff.modelNew
    /\ (LiveModels(heap) # {} /\ last.line \in {PlanLine(TurnPayload), ExecuteLine(TurnPayload)}
         /\ last.end = "ok") => last.resp # R_NotLoaded
    /\ \A m \in DOMAIN heap.models : m = Len(heap.models) => heap.models[m] = 0

\* the Vision Encoder was called in the turn setup of a PLAN and gave no embedding
EncoderFailed(l) ==
    /\ IsPlan(l.line)
    /\ l.eff.embedCall
    /\ l.eff.embedNew = NULL

\* C9: when the Vision Encoder fails in the turn setup of a PLAN, the PLAN is
\* answered success:false with "Could not initialize turn, please try again"
\* (not the missing-fields reason), no inference runs and nothing is released.
C9_SetupFailureAborts ==
    [][ (inp' # inp /\ EncoderFailed(last')) =>
            /\ out' = Append(out, R_TurnSetup)
            /\ last'.resp.success = FALSE
            /\ last'.resp.reason # R_InvalidPayload.reason
            /\ ~last'.eff.inferRan
            /\ ~last'.eff.cleanup
            /\ Releases(heap') = Releases(heap) ]_vars

C9_Witness ==
    /\ EncoderFailed(last)
    /\ last.eff.ctxNew # NULL
    /\ last.resp = R_TurnSetup

\* C10: if a slice evaluation fails during a PLAN or EXECUTE (in the system
\* segment, the image embedding, the user segment or a sampled token fed back),
\* generation stops at that point: nothing more is evaluated or sampled, the
\* partial response is discarded and the command's response is success:false.
C10_EvalFailureFailsTurn ==
    gen.failed =>
        /\ ~gen.evalAfterFail
        /\ gen.pc = "done" =>
              /\ gen.result = <<>>
              /\ GenResponse(gen.result).success = FALSE

Malformed(l) ==
    /\ IsPlan(l) \/ IsExecute(l) \/ IsLoad(l)
    /\ \/ l.payload.len = 0
       \/ ~l.payload.json
       \/ ~l.payload.strings
       \/ ~((IF IsLoad(l) THEN {"text_model", "vision_model"} ELSE {"prompt", "image"})
              \subseteq l.payload.keys)

\* C12: no request error ends the process: a LOAD, PLAN or EXECUTE line with a
\* malformed payload is answered with a failure response, no resource is
\* touched, and the dispatcher goes back to reading.
C12_RequestErrorsNotFatal ==
    (inp # <<>> /\ Malformed(last.line)) =>
        /\ last.end = "ok"
        /\ last.resp.success = FALSE
        /\ last.resp # NoResponse
        /\ last.eff = NoEffect
        /\ pc = "read"

\* C13: on SHUTDOWN the dispatcher writes {success:true, "Shutting down"}, sets
\* running to false and leaves the loop, mutating no session resource; once
\* running is false no further line is read or answered.
C13_ShutdownStops ==
    [][ /\ (inp' # inp /\ IsShutdown(last'.line)) =>
              /\ out' = Append(out, R_ShuttingDown)
              /\ running' = FALSE
              /\ pc' = "stopped"
              /\ heap' = heap
              /\ session' = session
              /\ params' = params
        /\ ~running =>
              /\ inp' = inp
              /\ out' = out
              /\ running' = FALSE ]_vars

C13_Witness ==
    /\ pc = "exited"
    /\ ~running
    /\ Len(inp) = 2
    /\ inp[2] = Line(SHUTDOWN_S, NoPayload)
    /\ out[Len(out)] = R_ShuttingDown
    /\ heap.ctxs # <<>>

\* the last line read begins with SHUTDOWN
BeginsWithShutdown == inp # <<>> /\ StartsWith(last.line, SHUTDOWN_S)

\* C14 as stated: every verb is matched by prefix, so a line that begins with
\* SHUTDOWN followed by other characters is handled as SHUTDOWN.
C14_PrefixRouting ==
    BeginsWithShutdown =>
        (last.branch = "SHUTDOWN" /\ last.resp = R_ShuttingDown /\ ~running)

\* C14: SHUTDOWN is matched by equality with the whole line and LOAD, PLAN and
\* EXECUTE by prefix; every other non-blank line (one that begins with SHUTDOWN
\* followed by other characters included) is answered "Error unknown function:
\* <input>" with the whole line, and no session state changes.
C14_Routing ==
    [][ inp' # inp =>
          LET l == last'.line
              whole == l.text = SHUTDOWN_S /\ l.payload.len = 0
              unknown == [success |-> FALSE, reason |-> "Error unknown function: ",
                          input |-> l.text]
          IN  /\ last'.branch = "SHUTDOWN" <=> whole
              /\ last'.branch = "PLAN" <=> StartsWith(l, PLAN_S)
              /\ last'.branch = "EXECUTE" <=> StartsWith(l, EXECUTE_S)
              /\ last'.branch = "LOAD" <=> StartsWith(l, LOAD_S)
              /\ last'.branch = "unknown" <=>
                    /\ ~IsBlank(l)
                    /\ ~whole
                    /\ \A v \in {PLAN_S, EXECUTE_S, LOAD_S} : ~StartsWith(l, v)
              /\ last'.branch = "unknown" =>
                    /\ out' = Append(out, unknown)
                    /\ l.payload.len = 0
                    /\ session' = session
                    /\ params' = params
                    /\ heap' = heap
                    /\ running' = running
                    /\ pc' = "read" ]_vars

C14_Witness ==
    /\ Len(inp) = 2
    /\ inp[1] = Line(PLAN_S \o <<"S">>, NoPayload)
    /\ inp[2] = Line(SHUTDOWN_S \o <<"!">>, NoPayload)
    /\ out = <<R_InvalidPayload, R_Unknown(inp[2])>>
    /\ last.branch = "unknown"
    /\ running
    /\ pc = "read"

\* C15: commands are handled one at a time and in order: a line is read only
\* when every earlier non-blank line has its response, the response written in
\* a step is the one of the line read in that step (so the i-th RESPONSE
\* answers the i-th non-blank line), and the session, the parameters and the
\* runtime's resources change only in the step of one line.
C15_OneAtATimeInOrder ==
    [][ /\ inp' # inp =>
              /\ Len(out) = NonBlank(inp)
              /\ inp' = Append(inp, last'.line)
              /\ IF IsBlank(last'.line) \/ last'.end # "ok"
                 THEN out' = out
                 ELSE out' = Append(out, last'.resp)
        /\ inp' = inp =>
              /\ out' = out
              /\ session' = session
              /\ params' = params
              /\ heap' = heap ]_vars

C15_Witness ==
    /\ inp = <<LoadLine(LoadPayload), Line(<<>>, NoPayload), Line(FOO_S, NoPayload)>>
    /\ out = <<R_Loaded, R_Unknown(Line(FOO_S, NoPayload))>>
    /\ LiveModels(heap) # {}
    /\ pc = "read"

\* the image of the run has just been laid out and evaluated
ImageEvaluated == gen.pc = "image" /\ gen'.pc = "user"

\* C16: for a pw x ph grid with pw * ph image tokens and the cursor at c, the
\* patch at (x, y), stored at index y * pw + x, gets the coordinates
\* (c, c + y, c + x, 0): plane 0 is c and plane 3 is 0 over all patches.
C16_ImagePositionLayout ==
    [][ ImageEvaluated =>
          LET n == gen.pw * gen.ph
              c == gen.st_pos_id
              m == gen'.mrope_pos
          IN  /\ ~m.oob
              /\ DOMAIN m.cells = 0..(4 * n - 1)
              /\ \A x \in 0..(gen.pw - 1), y \in 0..(gen.ph - 1) :
                    LET i == y * gen.pw + x
                    IN  /\ m.cells[i] = c
                        /\ m.cells[n + i] = c + y
                        /\ m.cells[2 * n + i] = c + x
                        /\ m.cells[3 * n + i] = 0 ]_vars

\* a 2 x 1 grid (two columns, one row) laid out from cursor 1
C16_Witness ==
    /\ gen.pc = "user"
    /\ gen.pw = 2 /\ gen.ph = 1
    /\ gen.mrope_pos.cells = [j \in 0..7 |-> <<1, 1, 1, 1, 1, 2, 0, 0>>[j + 1]]

\* C17: evaluating an image with grid pw x ph from cursor c leaves st_pos_id at
\* c + max(pw, ph), whatever the batch size and the number of chunks and
\* whether or not a chunk was rejected (c + 1 for a 1 x 1 grid); n_past
\* advances by the number of image tokens when every chunk is accepted.
C17_CursorAdvancesOncePerImage ==
    [][ ImageEvaluated =>
          LET n == gen.pw * gen.ph
              larger == IF gen.pw > gen.ph THEN gen.pw ELSE gen.ph
          IN  /\ gen'.st_pos_id = gen.st_pos_id + larger
              /\ (gen.pw = 1 /\ gen.ph = 1) => gen'.st_pos_id = gen.st_pos_id + 1
              /\ ~gen'.failed => gen'.n_past = gen.n_past + n
              /\ \A failAt \in 0..NumSlices(n, gen.n_batch) :
                    LET r == qwen2vl_eval_image_embed(n, gen.pw, gen.ph, gen.n_batch,
                                                      gen.n_past, gen.st_pos_id, failAt)
                    IN  /\ r.st_pos_id = gen.st_pos_id + larger
                        /\ r.ok <=> failAt = 0
                        /\ r.ok => r.n_past = gen.n_past + n ]_vars

\* a 2 x 2 image evaluated in four chunks of one token after a one-token
\* system segment
C17_Witness ==
    /\ gen.pc = "user"
    /\ gen.hasImage
    /\ gen.pw = 2 /\ gen.ph = 2 /\ gen.n_batch = 1 /\ gen.nSys = 1
    /\ ~gen.failed
    /\ gen.n_past = 5
    /\ gen.st_pos_id = 3

\* a pass of the generation loop: a token is sampled and its fragment appended
Emitted == gen.pc = "sample" /\ gen'.pc \in {"sample", "trim"}

\* the fragment appended in the pass
Fragment == SubSeq(gen'.response, Len(gen.response) + 1, Len(gen'.response))

\* after the pass: "###" in the fragment, a marker in the accumulated response
\* (in one fragment or across several), or the token budget used up
MarkerOrBudget ==
    \/ Contains(Fragment, <<"#", "#", "#">>)
    \/ Contains(gen'.response, <<"<", "|", "i", "m", "_", "e", "n", "d", "|", ">">>)
    \/ Contains(gen'.response, <<"<", "|", "i", "m", "_", "s", "t", "a", "r", "t", "|", ">">>)
    \/ Contains(gen'.response, <<"U", "S", "E", "R", ":">>)
    \/ gen.i + 1 >= (IF gen.n_predict < 0 THEN 256 ELSE gen.n_predict)

\* once the loop is left the response gets no further fragment
NothingAfterStop == gen.pc = "trim" => (gen'.pc = "done" /\ gen'.response = gen.response)

\* C18 as stated: generation stops at the first pass after which the token is
\* end-of-generation, or the fragment contains "###", or the accumulated
\* response contains "<|im_end|>", "<|im_start|>" or "USER:", or the budget is
\* reached; no token is sampled after that.
C18_StopConditions ==
    [][ /\ Emitted =>
              /\ gen'.pc = "trim" <=> (gen'.token.eog \/ MarkerOrBudget)
              /\ gen'.pc = "sample" => gen'.i = gen.i + 1
        /\ NothingAfterStop ]_vars

\* C18: generation stops at the first pass after which the fragment returned
\* for the token is "</s>" (an end-of-generation token, or an ordinary token
\* with that text), or the fragment contains "###", or the accumulated response
\* contains "<|im_end|>", "<|im_start|>" or "USER:" (a marker split across
\* fragments included), or the budget is reached; no token is sampled after.
C18_StopsAtFirstCondition ==
    [][ /\ Emitted =>
              /\ gen'.token.eog => Fragment = <<"<", "/", "s", ">">>
              /\ gen'.pc = "trim" <=> (Fragment = <<"<", "/", "s", ">">> \/ MarkerOrBudget)
              /\ gen'.pc = "sample" => gen'.i = gen.i + 1
        /\ NothingAfterStop ]_vars

\* "<|im_end|>" came in two fragments and stopped generation at the second,
\* one pass ahead of the budget
C18_Witness ==
    /\ gen.pc = "trim"
    /\ gen.response = IM_END_S
    /\ gen.token.piece = <<"e", "n", "d", "|", ">">>
    /\ gen.i = 1
    /\ gen.n_predict = 3

\* text ends with suffix
EndsWith(text, suffix) ==
    /\ Len(text) >= Len(suffix)
    /\ SubSeq(text, Len(text) - Len(suffix) + 1, Len(text)) = suffix

\* C19: however generation stopped, the text process_prompt returns does not end
\* with "</s>"; when it stopped on the end-of-generation token, the text is the
\* accumulated text of the earlier tokens.
C19_NoTrailingEog ==
    gen.pc = "done" =>
        /\ ~EndsWith(gen.result, <<"<", "/", "s", ">">>)
        /\ gen.token.eog =>
              gen.result \o <<"<", "/", "s", ">">> = gen.response

\* C20: n_past and st_pos_id are zero when the PLAN of a turn starts and never
\* decrease within the turn (the PLAN and the EXECUTE that follows it): no
\* evaluation lowers a counter and neither is reset between the two commands.
C20_CountersMonotoneInTurn ==
    [][ /\ (gen.mode = PLANNER /\ gen.pc = "system") =>
              (gen.n_past = 0 /\ gen.st_pos_id = 0)
        /\ gen'.n_past >= gen.n_past
        /\ gen'.st_pos_id >= gen.st_pos_id ]_vars

\* C21: an Image Embedding made in a turn setup is released exactly once, by
\* the cleanup of the EXECUTE that ends the turn: after LOAD, PLAN, EXECUTE (the
\* dispatcher back at reading) none remains allocated, and a cleanup releases
\* the embedding the setup made.
C21_EmbeddingReleasedOnce ==
    LET lpe == <<LoadLine(LoadPayload), PlanLine(TurnPayload), ExecuteLine(TurnPayload)>>
    IN  /\ \A e \in DOMAIN heap.embeds : heap.embeds[e] <= 1
        /\ (inp = lpe /\ pc = "read" /\ LiveModels(heap) # {}) => LiveEmbeds(heap) = {}
        /\ (inp = lpe /\ LiveModels(heap) # {} /\ last.eff.cleanup /\ heap.embeds # <<>>) =>
              heap.embeds[Len(heap.embeds)] = 1

\* C22: a fully successful eval_tokens of N tokens with batch size B submits
\* ceil(N / B) slices, contiguous and in order, each of B tokens except a final
\* one of N mod B when that is not 0; n_past has advanced by the size of every
\* earlier slice when a slice is submitted, and by N at the end; with N = 0
\* nothing is submitted and n_past stays.
C22_SlicesCoverInOrder ==
    (gen.pc = "returned" /\ gen.fn = "eval_tokens" /\ gen.failAt = 0) =>
        LET N == gen.N
            B == gen.n_batch
            s == gen.r.slices
        IN  /\ gen.r.ok
            /\ Len(s) = (N + B - 1) \div B
            /\ \A k \in 1..Len(s) :
                  /\ s[k].first = (k - 1) * B
                  /\ s[k].n = IF k = Len(s) /\ N % B # 0 THEN N % B ELSE B
                  /\ s[k].n_past = gen.n_past + (k - 1) * B
            /\ gen.r.n_past = gen.n_past + N
            /\ N = 0 => (s = <<>> /\ gen.r.n_past = gen.n_past)

C22_Witness ==
    /\ gen.pc = "returned" /\ gen.fn = "eval_tokens" /\ gen.failAt = 0
    /\ Len(gen.r.slices) >= 2
    /\ gen.r.slices[Len(gen.r.slices)].n < gen.n_batch
    /\ gen.n_past > 0

\* C23: when the runtime rejects a slice, eval_tokens and
\* qwen2vl_eval_image_embed return failure; the rejected slice is the last one
\* submitted, no slice is submitted twice, and n_past is its value at entry plus
\* the sizes of the slices before the rejected one.
C23_RejectedSliceStops ==
    (gen.pc = "returned" /\ gen.fn \in {"eval_tokens", "image"} /\ gen.failAt > 0
        /\ gen.r.end = "ok") =>
        LET s == gen.r.slices
        IN  /\ ~gen.r.ok
            /\ Len(s) = gen.failAt
            /\ \A k, m \in 1..Len(s) : k < m => s[k].first + s[k].n <= s[m].first
            /\ gen.r.n_past = gen.n_past + SumSeq([k \in 1..(Len(s) - 1) |-> s[k].n])

C23_Witness ==
    /\ gen.pc = "returned" /\ gen.fn = "eval_tokens"
    /\ gen.failAt = 2 /\ gen.N > 2 * gen.n_batch /\ gen.n_past > 0
    /\ ~gen.r.ok

\* C24: in text evaluation from cursor c, the token at offset j of a chunk of n
\* tokens gets the cursor at the chunk's start plus j in the first three planes
\* and 0 in the fourth; the cursor has advanced by the sizes of the earlier
\* chunks, so the k-th token of the call gets c + k whatever the batch size, and
\* st_pos_id ends at c + N.
C24_TextPositions ==
    (gen.pc = "returned" /\ gen.fn \in {"eval_tokens", "eval_id"}) =>
        LET c == gen.st_pos_id
            s == gen.r.slices
        IN  /\ \A k \in 1..Len(s) :
                  /\ DOMAIN s[k].pos = 0..(4 * s[k].n - 1)
                  /\ s[k].cursor = c + SumSeq([m \in 1..(k - 1) |-> s[m].n])
                  /\ \A j \in 0..(s[k].n - 1) :
                        /\ \A p \in 0..2 : s[k].pos[p * s[k].n + j] = s[k].cursor + j
                        /\ s[k].pos[3 * s[k].n + j] = 0
                        /\ s[k].pos[j] = c + s[k].first + j
            /\ gen.r.ok => gen.r.st_pos_id = c + gen.N

C24_Witness ==
    /\ gen.pc = "returned" /\ gen.fn = "eval_tokens" /\ gen.r.ok
    /\ gen.st_pos_id > 0 /\ gen.n_batch >= 2
    /\ Len(gen.r.slices) >= 2

\* C25: every image chunk of n_eval tokens from image token i hands the runtime
\* a buffer holding at index p * n_eval + k the layout's plane-p coordinate of
\* image token i + k (p in 0..3, k < n_eval); n_eval is at most the batch size
\* and the chunks of a successful call cover the image tokens once each, in
\* order.
C25_ImageChunkPositions ==
    (gen.pc = "returned" /\ gen.fn = "image" /\ ~gen.r.mrope_pos.oob) =>
        LET s == gen.r.slices
            T == gen.N
            pw == patches(gen.width)
            ph == patches(gen.height)
        IN  /\ \A k \in 1..Len(s) :
                  /\ s[k].n >= 1 /\ s[k].n <= gen.n_batch
                  /\ s[k].first = IF k = 1 THEN 0 ELSE s[k - 1].first + s[k - 1].n
                  /\ \A p \in 0..3, j \in 0..(s[k].n - 1) :
                        /\ s[k].pos[p * s[k].n + j] =
                              gen.r.mrope_pos.cells[p * T + s[k].first + j]
                        /\ T = pw * ph =>
                              s[k].pos[p * s[k].n + j] =
                                 patch_pos(gen.st_pos_id, (s[k].first + j) % pw,
                                           (s[k].first + j) \div pw)[p + 1]
            /\ gen.r.ok => (s # <<>> /\ s[Len(s)].first + s[Len(s)].n = T)

C25_Witness ==
    /\ gen.pc = "returned" /\ gen.fn = "image" /\ gen.r.ok
    /\ gen.N = patches(gen.width) * patches(gen.height)
    /\ patches(gen.width) >= 2 /\ patches(gen.height) >= 2
    /\ gen.n_batch >= 2 /\ Len(gen.r.slices) >= 2
    /\ gen.st_pos_id > 0

\* C29: for every image size and every image-token count n_image_pos, the
\* position layout writes only inside its buffer of 4 * n_image_pos entries,
\* and every plane-p write stays inside plane p (the pw * ph patches of the
\* image are at most n_image_pos).
C29_LayoutWritesInBounds ==
    (gen.pc = "returned" /\ gen.fn = "image") =>
        /\ ~gen.r.mrope_pos.oob
        /\ patches(gen.width) * patches(gen.height) <= gen.N

\* the number of tokens the generation loop of g has sampled: i counts the
\* passes that went on, and the pass that left the loop is not counted in it
Sampled(g) ==
    IF g.pc = "sample" THEN g.i ELSE IF g.token = NoToken THEN 0 ELSE g.i + 1

\* one pass of the generation loop samples one token, feeds that token and no
\* other back to the runtime, advances both counters by d, and either goes on
\* with i + 1 or leaves the loop; the loop never samples more than max_tgt_len
\* tokens (256 for a negative n_predict, n_predict otherwise)
LoopPass(d) ==
    LET bound == IF gen.n_predict < 0 THEN DefaultTgtLen ELSE gen.n_predict
    IN  /\ Sampled(gen') <= bound
        /\ (gen.pc = "sample" /\ gen' # gen) =>
              /\ gen.i < bound
              /\ Sampled(gen') = Sampled(gen) + 1
              /\ gen'.fed.tokens = <<gen'.token>>
              /\ gen'.n_past = gen.n_past + d
              /\ gen'.st_pos_id = gen.st_pos_id + d
              /\ \/ gen'.pc = "sample" /\ gen'.i = gen.i + 1
                 \/ gen'.pc = "trim"

SegmentsInOrder ==
    /\ (gen.pc \in {"system", "image", "user", "smpl"}) =>
          (gen.token = NoToken /\ gen.response = <<>> /\ gen.fed = NoFed)
    /\ (gen.pc \in {"smpl", "sample", "trim", "done"}) =>
          gen.evals = IF gen.hasImage
                      THEN <<TextEval(gen.system_prompt, TRUE), ImageEval,
                             TextEval(gen.user_prompt, FALSE)>>
                      ELSE <<TextEval(gen.system_prompt, TRUE),
                             TextEval(gen.user_prompt, FALSE)>>

\* the segments carry the vision markers exactly when the inference holds an
\* image embedding: system ends with "<|vision_start|>" and user begins with
\* "<|vision_end|>", or neither marker is in either segment
MarkersFollowImage ==
    (gen.pc \in {"smpl", "sample", "trim", "done"}) =>
        LET system == gen.evals[1].text
            user == gen.evals[Len(gen.evals)].text
        IN  IF gen.hasImage
            THEN /\ system # <<>>
                 /\ system[Len(system)] = VISION_START_S
                 /\ Head(user) = VISION_END_S
            ELSE \A i \in DOMAIN system, j \in DOMAIN user :
                    /\ system[i] \notin {VISION_START_S, VISION_END_S}
                    /\ user[j] \notin {VISION_START_S, VISION_END_S}

C28_NoModelNoRuntimeCall ==
    (last.branch \in {"PLAN", "EXECUTE"} /\ last.line.payload = TurnPayload
        /\ session.model = NULL) =>
        /\ last.end = "ok"
        /\ last.resp = R_NotLoaded
        /\ ~last.eff.ctxCall
        /\ ~last.eff.embedCall
        /\ ~last.eff.inferRan
        /\ ~last.eff.cleanup
        /\ ~last.eff.nullDeref

\* C30: the read loop leaves only through SHUTDOWN: the loop is left (and the
\* final model release reached) only by the pass that handled a SHUTDOWN line,
\* and once the control channel is at its end without one, running stays true,
\* nothing more is read, no RESPONSE is written and nothing is released.
C30_LeavesOnlyThroughShutdown ==
    [][ /\ (pc # "stopped" /\ pc' = "stopped") =>
              (last'.branch = "SHUTDOWN" /\ IsShutdown(last'.line) /\ inp' # inp)
        /\ running' # running => (pc' = "stopped" /\ last'.branch = "SHUTDOWN")
        /\ pc' = "exited" => pc \in {"stopped", "exited"}
        /\ pc = "eof" =>
              /\ pc' = "eof" /\ running /\ running'
              /\ inp' = inp /\ out' = out /\ heap' = heap ]_vars

C30_Witness ==
    /\ pc = "eof" /\ running
    /\ LiveModels(heap) # {}
    /\ out # <<>>
    /\ \A i \in DOMAIN inp : ~IsShutdown(inp[i])

====
